---- MODULE Spec2Model ----
(***************************************************************************)
(* A state-machine model of the Remarkable client class                    *)
(* (src/src/remarkable.ts).                                                *)
(*                                                                         *)
(* The state is the instance's fields plus one frame per call of a public  *)
(* method that has been started.  Every `await` of the source is a step    *)
(* boundary: the code from one await to the next runs as one action.  The  *)
(* remote service, the HTTP library (got), JSZip and uuid are the          *)
(* environment: a response is chosen nondeterministically among the        *)
(* shapes the wire contract allows, or the request is rejected.            *)
(*                                                                         *)
(* Tokens, hosts and blob URLs issued by the service are non-empty         *)
(* strings; the string "undefined" stands for the value `undefined`.       *)
(***************************************************************************)
EXTENDS Integers, Sequences, FiniteSets, TLC

\* ------------------------------------------------------------------ bounds
MaxUuid == 2
MaxItems == 2
MaxChunks == 2
MaxInFlight == 2

\* --------------------------------------------------------- value domains
Undefined == "undefined"
NoDoc == 0
Tokens == {"stok", "stok2"}
DeviceTokens == {"dtok", "dtok2"}
Hosts == {"host-a", "host-b"}
DocIds == 1..MaxUuid
BlobUrls == {"https://blob/1"}
Versions == 1..2
Chunks == {<<1>>, <<2, 3>>}
Codes == {Undefined, "", "ABC123"}
Names == {"Report", "Notes"}
Files == {"%PDF"}
StatusCodes == {200, 201}
Slots == 1..MaxInFlight

\* `!x` of the source, for an optional string
Falsy(x) == x = Undefined \/ x = ""

\* The messages of the errors the code throws
ErrMustRegister == "You must register your reMarkable first"
ErrNeedRefresh == "You need to call refreshToken() first"
ErrNoCode == "Must provide a code from https://my.remarkable.com/connect/desktop"
ErrNoBlob == "Couldn't find BlobURLGet in response"
ErrUploadRequest == "Error during the creation of the upload request"
ErrUploadTransfer == "Error during the upload of the document"
ErrUpdateStatus == "Error during the update status of the metadata"
\* rejections that do not come from a `throw` of the class
ErrTransport == "RequestError"
ErrTypeError == "TypeError"

\* An absent URL, and the two template strings that build a cached endpoint
NoUrl == <<>>
StorageApiVer == 2
NotificationsApiVer == 1

StorageUrlOf(host) == <<"https://", host>>

NotificationUrlOf(host) == <<"wss://", host>>

\* ------------------------------------------------------------------ state
VARIABLES
  token,            \* this.token: the Session Token, Undefined when absent
  deviceToken,      \* this.deviceToken
  gotClient,        \* the bearer of this.gotClient's Authorization header
  storageUrl,       \* this.storageUrl
  notificationUrl,  \* this.notificationUrl
  zip,              \* this.zip: the entries of the shared JSZip instance
  uuid,             \* the number of ids uuidv4() has produced
  calls             \* one frame per slot: a call of a public method

vars == <<token, deviceToken, gotClient, storageUrl, notificationUrl, zip, uuid, calls>>

session == <<token, deviceToken, gotClient>>

endpoints == <<storageUrl, notificationUrl>>

\* A frame holds the method, its arguments, its locals, its position, the
\* requests it has issued so far, the answers to them (recv[i] answers
\* sent[i]) and the way its promise settled.
Idle ==
  [op |-> "none", pc |-> "idle", phase |-> "", code |-> "", ID |-> NoDoc, version |-> 0,
   name |-> "", zipFile |-> {}, url |-> NoUrl, client |-> Undefined, chunks |-> <<>>,
   sent |-> <<>>, recv |-> <<>>, settled |-> "pending", value |-> <<>>, error |-> ""]

NewCall(op) == [Idle EXCEPT !.op = op, !.pc = "running"]

Request(kind, auth, url, json) == [kind |-> kind, auth |-> auth, url |-> url, json |-> json]

Send(c, req, pc) == [c EXCEPT !.sent = Append(@, req), !.pc = pc]

\* The answer to a request: a parsed body, or the rejection of the request
Ok(body) == [status |-> "ok", body |-> body]

Rejected == [status |-> "rejected", body |-> <<>>]

Recv(c, answer) == [c EXCEPT !.recv = Append(@, answer)]

\* The request is rejected and the rejection propagates to the caller
Fail(c) == [Recv(c, Rejected) EXCEPT !.pc = "done", !.settled = "rejected", !.error = ErrTransport]

Throw(c, msg) == [c EXCEPT !.pc = "done", !.settled = "rejected", !.error = msg]

Return(c, v) == [c EXCEPT !.pc = "done", !.settled = "resolved", !.value = <<v>>]

\* A slot is free when no call occupies it or its last call has settled.
Free(s) == calls[s].pc \in {"idle", "done"}

Init ==
  /\ token = Undefined
  /\ gotClient = Undefined
  /\ deviceToken \in {Undefined} \cup DeviceTokens
  /\ storageUrl = NoUrl
  /\ notificationUrl = NoUrl
  /\ zip = {}
  /\ uuid = 0
  /\ calls = [s \in Slots |-> Idle]

\* ---------------------------------------------------------- Session Manager
\* Mutant: setToken stores the token and keeps the old client
SetToken_KeepsClient(t) == [gotClient |-> gotClient, token |-> t]

\* setToken: the authorized client is rebuilt with the new bearer, then the
\* token is stored; the fields it leaves.
SetToken(t) == [gotClient |-> t, token |-> t]

\* Mutant: refreshToken does not ask for a device token
RefreshGuard_None(dt) == TRUE

\* The guard of refreshToken
RefreshGuard(dt) == ~Falsy(dt)

\* refreshToken up to its await: the guard, then the exchange request
CallRefreshToken(c, dt) ==
  IF ~RefreshGuard(dt) THEN Throw(c, ErrMustRegister)
  ELSE Send(c, Request("user/new", dt, NoUrl, <<>>), "refresh")

StartRefreshToken(s) ==
  /\ Free(s)
  /\ calls' = [calls EXCEPT ![s] = CallRefreshToken(NewCall("refreshToken"), deviceToken)]
  /\ UNCHANGED <<session, endpoints, zip, uuid>>

\* The exchange answers: refreshToken resumes, or its promise rejects.  A
\* register call that awaits refreshToken then returns the device token.
RefreshResponse(s) ==
  /\ calls[s].pc = "refresh"
  /\ \/ /\ calls' = [calls EXCEPT ![s] = Fail(@)]
        /\ UNCHANGED session
     \/ \E t \in Tokens :
          LET c == Recv(calls[s], Ok(<<t>>)) IN
          /\ gotClient' = SetToken(t).gotClient
          /\ token' = SetToken(t).token
          /\ calls' = [calls EXCEPT ![s] =
                         IF c.op = "register" THEN Return(c, c.recv[1].body[1])
                         ELSE Return(c, t)]
          /\ UNCHANGED deviceToken
  /\ UNCHANGED <<endpoints, zip, uuid>>

\* Mutant: register only checks that a code was passed
RegisterGuard_DefinedOnly(code) == code # Undefined

\* The guard of register
RegisterGuard(code) == ~Falsy(code)

StartRegister(s) ==
  /\ Free(s)
  /\ \E code \in Codes :
       LET c == [NewCall("register") EXCEPT !.code = code] IN
       calls' = [calls EXCEPT ![s] =
                   IF ~RegisterGuard(code) THEN Throw(c, ErrNoCode)
                   ELSE Send(c, Request("device/new", Undefined, NoUrl, <<code>>), "register")]
  /\ UNCHANGED <<session, endpoints, zip, uuid>>

\* Mutant: the `.then` handler does not store the device token
StoredDeviceToken_Unchanged(old, body) == old

\* The device token the `.then` handler stores
StoredDeviceToken(old, body) == body

\* The registration answers: the `.then` handler stores the device token
\* and calls refreshToken.
RegisterResponse(s) ==
  /\ calls[s].pc = "register"
  /\ \/ /\ calls' = [calls EXCEPT ![s] = Fail(@)]
        /\ UNCHANGED deviceToken
     \/ \E dt \in DeviceTokens :
          /\ deviceToken' = StoredDeviceToken(deviceToken, dt)
          /\ calls' = [calls EXCEPT ![s] =
                         CallRefreshToken(Recv(calls[s], Ok(<<dt>>)), deviceToken')]
  /\ UNCHANGED <<token, gotClient, endpoints, zip, uuid>>

\* Mutant: the endpoint getters never look at the cache
EndpointEntry_NoCache(cache, tok) ==
  IF Falsy(tok) THEN "throw" ELSE "request"

\* Mutant: the endpoint getters without their token check
EndpointEntry_NoTokenCheck(cache, tok) ==
  IF cache # NoUrl THEN "cached" ELSE "request"

\* The first two lines of getStorageUrl / getNotificationsUrl: what the call
\* does with the cache and the token it finds.
EndpointEntry(cache, tok) ==
  IF cache # NoUrl THEN "cached"
  ELSE IF Falsy(tok) THEN "throw"
  ELSE "request"

\* Mutant: the resolved endpoint is not stored
CacheEndpoint_Forget(old, resolved) == old

\* Mutant: an endpoint already cached is kept, the first response wins
CacheEndpoint_FirstWins(old, resolved) == IF old # NoUrl THEN old ELSE resolved

\* `this.storageUrl = ...` / `this.notificationUrl = ...`: the field after
\* the assignment, which the method then returns
CacheEndpoint(old, resolved) == resolved

DiscoveryRequest(kind, apiVer) ==
  Request(kind, gotClient, NoUrl, <<"production", "auth0|5a68dc51cb30df3877a1d7c4", apiVer>>)

StartGetStorageUrl(s) ==
  /\ Free(s)
  /\ LET c == NewCall("getStorageUrl")
         e == EndpointEntry(storageUrl, token) IN
     calls' = [calls EXCEPT ![s] =
                 CASE e = "cached" -> Return(c, storageUrl)
                   [] e = "throw" -> Throw(c, ErrNeedRefresh)
                   [] OTHER -> Send(c, DiscoveryRequest("document-storage", StorageApiVer), "discover")]
  /\ UNCHANGED <<session, endpoints, zip, uuid>>

StartGetNotificationsUrl(s) ==
  /\ Free(s)
  /\ LET c == NewCall("getNotificationsUrl")
         e == EndpointEntry(notificationUrl, token) IN
     calls' = [calls EXCEPT ![s] =
                 CASE e = "cached" -> Return(c, notificationUrl)
                   [] e = "throw" -> Throw(c, ErrNeedRefresh)
                   [] OTHER -> Send(c, DiscoveryRequest("notifications", NotificationsApiVer), "discover_notifications")]
  /\ UNCHANGED <<session, endpoints, zip, uuid>>

NotificationsResponse(s) ==
  /\ calls[s].pc = "discover_notifications"
  /\ \/ /\ calls' = [calls EXCEPT ![s] = Fail(@)]
        /\ UNCHANGED notificationUrl
     \/ \E h \in Hosts :
          /\ notificationUrl' = CacheEndpoint(notificationUrl, NotificationUrlOf(h))
          /\ calls' = [calls EXCEPT ![s] =
                         Return(Recv(calls[s], Ok(<<h>>)), notificationUrl')]
  /\ UNCHANGED <<session, storageUrl, zip, uuid>>

\* The call of getStorageUrl another method awaits: the caller resumes with
\* the URL, or rejects with what getStorageUrl throws.
CallGetStorageUrl(c) ==
  LET e == EndpointEntry(storageUrl, token) IN
  CASE e = "cached" -> [c EXCEPT !.url = storageUrl, !.pc = "url_ready"]
    [] e = "throw" -> Throw(c, ErrNeedRefresh)
    [] OTHER -> Send(c, DiscoveryRequest("document-storage", StorageApiVer), "discover")

\* The storage discovery answers: the endpoint is cached (overwriting what
\* is there) and the call resumes with the value it built.
StorageResponse(s) ==
  /\ calls[s].pc = "discover"
  /\ \/ /\ calls' = [calls EXCEPT ![s] = Fail(@)]
        /\ UNCHANGED storageUrl
     \/ \E h \in Hosts :
          LET c == Recv(calls[s], Ok(<<h>>)) IN
          /\ storageUrl' = CacheEndpoint(storageUrl, StorageUrlOf(h))
          /\ calls' = [calls EXCEPT ![s] =
                         IF c.op = "getStorageUrl" THEN Return(c, storageUrl')
                         ELSE [c EXCEPT !.url = storageUrl', !.pc = "url_ready"]]
  /\ UNCHANGED <<session, notificationUrl, zip, uuid>>

\* The guard `if (!this.token) throw` that opens listItems, downloadZip,
\* uploadZip and uploadPDF
TokenGuard(tok) == ~Falsy(tok)

\* ------------------------------------------------------- Document Directory
ListOps == {"getItemWithId", "getAllItems", "downloadZip"}

\* listItems up to its first await
CallListItems(c) ==
  IF ~TokenGuard(token) THEN Throw(c, ErrNeedRefresh) ELSE CallGetStorageUrl(c)

StartGetItemWithId(s) ==
  /\ Free(s)
  /\ \E id \in DocIds :
       calls' = [calls EXCEPT ![s] = CallListItems([NewCall("getItemWithId") EXCEPT !.ID = id])]
  /\ UNCHANGED <<session, endpoints, zip, uuid>>

StartGetAllItems(s) ==
  /\ Free(s)
  /\ calls' = [calls EXCEPT ![s] = CallListItems(NewCall("getAllItems"))]
  /\ UNCHANGED <<session, endpoints, zip, uuid>>

\* listItems resumes with the storage URL and issues the query; `doc` is
\* NoDoc for getAllItems and withBlob keeps its default.
ListItemsSend(s) ==
  /\ calls[s].pc = "url_ready"
  /\ calls[s].op \in ListOps
  /\ calls' = [calls EXCEPT ![s] =
                 Send(@, Request("docs", gotClient, @.url, <<@.ID, TRUE>>), "list")]
  /\ UNCHANGED <<session, endpoints, zip, uuid>>

\* The result sets the service may answer with: up to MaxItems records, each
\* with or without a blob reference.
ItemOf(doc, i, blob) == [ID |-> IF doc = NoDoc THEN i ELSE doc, BlobURLGet |-> blob]

ListBodies(doc) ==
  UNION {{[i \in 1..n |-> ItemOf(doc, i, b[i])] : b \in [1..n -> {Undefined} \cup BlobUrls]}
         : n \in 0..MaxItems}

\* Mutant: getItemWithId takes the last record
FirstItem_Last(body) == IF body = <<>> THEN <<>> ELSE <<body[Len(body)]>>

\* `(await this.listItems({ doc: id }))[0]`: absent for an empty array
FirstItem(body) == IF body = <<>> THEN <<>> ELSE <<body[1]>>

\* downloadZip after getItemWithId: destructuring, the BlobURLGet check and
\* the opening of the stream
OpenBlob(c, item) ==
  IF item = <<>> THEN Throw(c, ErrTypeError)
  ELSE IF Falsy(item[1].BlobURLGet) THEN Throw(c, ErrNoBlob)
  ELSE Send(c, Request("blob-get", Undefined, <<item[1].BlobURLGet>>, <<>>), "stream")

ListItemsResponse(s) ==
  /\ calls[s].pc = "list"
  /\ \/ calls' = [calls EXCEPT ![s] = Fail(@)]
     \/ \E body \in ListBodies(calls[s].ID) :
          LET c == Recv(calls[s], Ok(body)) IN
          calls' = [calls EXCEPT ![s] =
                      CASE c.op = "getAllItems" -> Return(c, body)
                        [] c.op = "getItemWithId" -> Return(c, FirstItem(body))
                        [] OTHER -> OpenBlob(c, FirstItem(body))]
  /\ UNCHANGED <<session, endpoints, zip, uuid>>

StartDeleteItem(s) ==
  /\ Free(s)
  /\ \E id \in DocIds, version \in Versions :
       calls' = [calls EXCEPT ![s] =
                   CallGetStorageUrl([NewCall("deleteItem") EXCEPT !.ID = id, !.version = version])]
  /\ UNCHANGED <<session, endpoints, zip, uuid>>

\* The delete instruction deleteItem sends
DeleteInstruction(id, version) == <<[ID |-> id, Version |-> version]>>

DeleteItemSend(s) ==
  /\ calls[s].pc = "url_ready"
  /\ calls[s].op = "deleteItem"
  /\ calls' = [calls EXCEPT ![s] =
                 Send(@, Request("delete", gotClient, @.url, DeleteInstruction(@.ID, @.version)),
                      "delete")]
  /\ UNCHANGED <<session, endpoints, zip, uuid>>

\* Mutant: deleteItem reports success whenever the request went through
DeleteResult_Always(body) == TRUE

\* `body[0].Success`
DeleteResult(body) == body[1].Success

\* The service answers a delete with one result per instruction.
DeleteItemResponse(s) ==
  /\ calls[s].pc = "delete"
  /\ \/ calls' = [calls EXCEPT ![s] = Fail(@)]
     \/ \E ok \in BOOLEAN :
          LET body == <<[ID |-> calls[s].ID, Success |-> ok]>> IN
          calls' = [calls EXCEPT ![s] = Return(Recv(@, Ok(body)), DeleteResult(body))]
  /\ UNCHANGED <<session, endpoints, zip, uuid>>

\* --------------------------------------------------------- Transfer Pipeline
StartDownloadZip(s) ==
  /\ Free(s)
  /\ \E id \in DocIds :
       LET c == [NewCall("downloadZip") EXCEPT !.ID = id] IN
       calls' = [calls EXCEPT ![s] =
                   IF ~TokenGuard(token) THEN Throw(c, ErrNeedRefresh) ELSE CallListItems(c)]
  /\ UNCHANGED <<session, endpoints, zip, uuid>>

\* readStream.on('data'): the chunk is pushed
StreamData(s) ==
  /\ calls[s].pc = "stream"
  /\ Len(calls[s].chunks) < MaxChunks
  /\ \E chunk \in Chunks : calls' = [calls EXCEPT ![s].chunks = Append(@, chunk)]
  /\ UNCHANGED <<session, endpoints, zip, uuid>>

\* Mutant: only the chunk received last is delivered
Concat_Last(chunks) == IF chunks = <<>> THEN <<>> ELSE chunks[Len(chunks)]

\* Buffer.concat
RECURSIVE Concat(_)
Concat(chunks) == IF chunks = <<>> THEN <<>> ELSE Head(chunks) \o Concat(Tail(chunks))

\* readStream.on('end'): the promise resolves with the concatenation
StreamEnd(s) ==
  /\ calls[s].pc = "stream"
  /\ calls' = [calls EXCEPT ![s] = Return(Recv(@, Ok(<<"end">>)), Concat(@.chunks))]
  /\ UNCHANGED <<session, endpoints, zip, uuid>>

\* The stream fails: no handler is registered for 'error', and the promise
\* is given no reject callback, so the call never settles.
StreamError(s) ==
  /\ calls[s].pc = "stream"
  /\ calls' = [calls EXCEPT ![s] = [Recv(@, Rejected) EXCEPT !.pc = "stalled"]]
  /\ UNCHANGED <<session, endpoints, zip, uuid>>

\* The containers a caller of uploadZip may pass, and the entries uploadPDF
\* adds for a document id
Entries(ID, file) ==
  {[name |-> <<ID, ".content">>, data |-> "defaultPDFContent"],
   [name |-> <<ID, ".pagedata">>, data |-> ""],
   [name |-> <<ID, ".pdf">>, data |-> file]}

\* uploadZip up to its first await
CallUploadZip(c) ==
  IF ~TokenGuard(token) THEN Throw(c, ErrNeedRefresh)
  ELSE CallGetStorageUrl([c EXCEPT !.phase = "request"])

StartUploadZip(s) ==
  /\ Free(s)
  /\ \E name \in Names, ID \in DocIds, file \in Files :
       calls' = [calls EXCEPT ![s] =
                   CallUploadZip([NewCall("uploadZip") EXCEPT
                                    !.name = name, !.ID = ID, !.zipFile = Entries(ID, file)])]
  /\ UNCHANGED <<session, endpoints, zip, uuid>>

UploadOps == {"uploadZip", "uploadPDF"}

\* Phase 1: the upload request
UploadRequestSend(s) ==
  /\ calls[s].pc = "url_ready"
  /\ calls[s].op \in UploadOps
  /\ calls[s].phase = "request"
  /\ calls' = [calls EXCEPT ![s] =
                 Send(@, Request("upload/request", gotClient, @.url,
                                 <<[ID |-> @.ID, Type |-> "DocumentType", Version |-> 1]>>),
                      "upload_request")]
  /\ UNCHANGED <<session, endpoints, zip, uuid>>

\* Mutant: any status below 300 counts as a successful transfer
TransferFailed_Not2xx(statusCode) == statusCode >= 300

\* Mutant: phase 1 checks the Success flag only
UploadRequestFailed_SuccessOnly(r) == ~r.Success

\* `!body[0].Success || !body[0].BlobURLPut`
UploadRequestFailed(r) == ~r.Success \/ Falsy(r.BlobURLPut)

\* Mutant: the transfer reuses the authorization of the upload request
TransferBearer_OfRequest(c, tok) == c.sent[Len(c.sent)].auth

\* `Authorization: \`Bearer ${this.token}\`` of the transfer request: the field
\* is read when the request is built
TransferBearer(c, tok) == tok

\* Phase 1 answers; phase 2, the transfer of the container, is issued with
\* the Session Token of that moment.
UploadRequestResponse(s) ==
  /\ calls[s].pc = "upload_request"
  /\ \/ calls' = [calls EXCEPT ![s] = Fail(@)]
     \/ \E ok \in BOOLEAN, put \in {Undefined} \cup BlobUrls :
          LET r == [Success |-> ok, BlobURLPut |-> put]
              c == Recv(calls[s], Ok(<<r>>)) IN
          calls' = [calls EXCEPT ![s] =
                      IF UploadRequestFailed(r) THEN Throw(c, ErrUploadRequest)
                      ELSE Send(c, Request("blob-put", TransferBearer(c, token), <<put>>,
                                           c.zipFile), "transfer")]
  /\ UNCHANGED <<session, endpoints, zip, uuid>>

\* `statusCode !== 200`
TransferFailed(statusCode) == statusCode # 200

\* Phase 2 answers.  On success the callee this.gotClient.put of phase 3 is
\* evaluated before its argument awaits getStorageUrl.
TransferResponse(s) ==
  /\ calls[s].pc = "transfer"
  /\ \/ calls' = [calls EXCEPT ![s] = Fail(@)]
     \/ \E statusCode \in StatusCodes :
          LET c == Recv(calls[s], Ok(<<statusCode>>)) IN
          calls' = [calls EXCEPT ![s] =
                      IF TransferFailed(statusCode) THEN Throw(c, ErrUploadTransfer)
                      ELSE CallGetStorageUrl([c EXCEPT !.phase = "finalize", !.client = gotClient])]
  /\ UNCHANGED <<session, endpoints, zip, uuid>>

\* defaultPDFmetadata, and the record phase 3 spreads it into
DefaultPDFmetadata ==
  [deleted |-> FALSE, lastModified |-> "load", ModifiedClient |-> "load",
   metadatamodified |-> FALSE, modified |-> FALSE, parent |-> "", pinned |-> FALSE,
   synced |-> TRUE, type |-> "DocumentType", version |-> 1, VissibleName |-> "New Document"]

\* Mutant: the defaults are spread last and override the caller's name
UpdateStatusPayload_DefaultsLast(ID, name) ==
  <<[f \in DOMAIN DefaultPDFmetadata \cup {"ID"} |->
       CASE f = "ID" -> <<ID>>
         [] f \in {"lastModified", "ModifiedClient"} -> <<"now">>
         [] OTHER -> <<DefaultPDFmetadata[f]>>]>>

\* `{ ...defaultPDFmetadata, ID, VissibleName: name, lastModified, ModifiedClient }`
UpdateStatusPayload(ID, name) ==
  <<[f \in DOMAIN DefaultPDFmetadata \cup {"ID"} |->
       CASE f = "ID" -> <<ID>>
         [] f = "VissibleName" -> <<name>>
         [] f \in {"lastModified", "ModifiedClient"} -> <<"now">>
         [] OTHER -> <<DefaultPDFmetadata[f]>>]>>

\* Phase 3: the metadata update
UpdateStatusSend(s) ==
  /\ calls[s].pc = "url_ready"
  /\ calls[s].op \in UploadOps
  /\ calls[s].phase = "finalize"
  /\ calls' = [calls EXCEPT ![s] =
                 Send(@, Request("upload/update-status", @.client, @.url,
                                 UpdateStatusPayload(@.ID, @.name)),
                      "update_status")]
  /\ UNCHANGED <<session, endpoints, zip, uuid>>

\* Phase 3 answers: uploadZip returns the id the service confirms, and an
\* uploadPDF call that awaits it resumes.
UpdateStatusResponse(s) ==
  /\ calls[s].pc = "update_status"
  /\ \/ calls' = [calls EXCEPT ![s] = Fail(@)]
     \/ \E ok \in BOOLEAN, id \in DocIds :
          LET r == [Success |-> ok, ID |-> id]
              c == Recv(calls[s], Ok(<<r>>)) IN
          calls' = [calls EXCEPT ![s] =
                      IF ~r.Success THEN Throw(c, ErrUpdateStatus)
                      ELSE IF c.op = "uploadZip" THEN Return(c, r.ID)
                      ELSE [c EXCEPT !.pc = "uploaded"]]
  /\ UNCHANGED <<session, endpoints, zip, uuid>>

\* --------------------------------------------------------- Document Packager
\* JSZip.file(name, data): the entry is added, replacing one of that name
ZipFile(z, e) == {x \in z : x.name # e.name} \cup {e}

\* The three this.zip.file calls of uploadPDF
AddEntries(z, ID, file) ==
  ZipFile(ZipFile(ZipFile(z, [name |-> <<ID, ".content">>, data |-> "defaultPDFContent"]),
                  [name |-> <<ID, ".pagedata">>, data |-> ""]),
          [name |-> <<ID, ".pdf">>, data |-> file])

\* uploadPDF up to the await of generateAsync, which serializes the entries
\* the shared zip holds when it is called
StartUploadPDF(s) ==
  /\ Free(s)
  /\ \E name \in Names, file \in Files :
       LET c == [NewCall("uploadPDF") EXCEPT !.name = name] IN
       IF ~TokenGuard(token)
       THEN /\ calls' = [calls EXCEPT ![s] = Throw(c, ErrNeedRefresh)]
            /\ UNCHANGED <<zip, uuid>>
       ELSE /\ uuid < MaxUuid
            /\ uuid' = uuid + 1
            /\ zip' = AddEntries(zip, uuid', file)
            /\ calls' = [calls EXCEPT ![s] =
                           [c EXCEPT !.ID = uuid', !.zipFile = zip', !.pc = "generate"]]
  /\ UNCHANGED <<session, endpoints>>

\* generateAsync resolves and uploadZip is called
GenerateAsyncDone(s) ==
  /\ calls[s].pc = "generate"
  /\ calls' = [calls EXCEPT ![s] = CallUploadZip(@)]
  /\ UNCHANGED <<session, endpoints, zip, uuid>>

\* What uploadPDF leaves in this.zip once uploadZip has resolved
ResetZip(z) == {}

\* Mutant: uploadPDF returns what uploadZip resolved with
UploadPDFResult_Confirmed(ID, confirmed) == confirmed

\* The id uploadPDF returns: the one it generated, not the one uploadZip
\* resolved with
UploadPDFResult(ID, confirmed) == ID

\* uploadZip resolved: the zip is replaced and the generated id returned
UploadPDFFinish(s) ==
  /\ calls[s].pc = "uploaded"
  /\ zip' = ResetZip(zip)
  /\ calls' = [calls EXCEPT ![s] =
                 Return(@, UploadPDFResult(@.ID, @.recv[Len(@.recv)].body[1].ID))]
  /\ UNCHANGED <<session, endpoints, uuid>>

\* ------------------------------------------------------------ specification
Step(s) ==
  \/ StartRegister(s)
  \/ RegisterResponse(s)
  \/ StartRefreshToken(s)
  \/ RefreshResponse(s)
  \/ StartGetStorageUrl(s)
  \/ StartGetNotificationsUrl(s)
  \/ StorageResponse(s)
  \/ NotificationsResponse(s)
  \/ StartGetItemWithId(s)
  \/ StartGetAllItems(s)
  \/ ListItemsSend(s)
  \/ ListItemsResponse(s)
  \/ StartDeleteItem(s)
  \/ DeleteItemSend(s)
  \/ DeleteItemResponse(s)
  \/ StartDownloadZip(s)
  \/ StreamData(s)
  \/ StreamEnd(s)
  \/ StreamError(s)
  \/ StartUploadZip(s)
  \/ UploadRequestSend(s)
  \/ UploadRequestResponse(s)
  \/ TransferResponse(s)
  \/ UpdateStatusSend(s)
  \/ UpdateStatusResponse(s)
  \/ StartUploadPDF(s)
  \/ GenerateAsyncDone(s)
  \/ UploadPDFFinish(s)

\* The caller awaits every call before it makes the next one: one frame.
Next == \E s \in {1} : Step(s)

Spec == Init /\ [][Next]_vars

\* ------------------------------------------------- Calls that overlap in time
\* A call resumes after an await whose promise is already settled (a cached
\* endpoint, or a nested async method that has returned): its continuation
\* sits in the microtask queue.
MicrotaskPending == \E s \in Slots : calls[s].pc \in {"url_ready", "uploaded"}

\* Endpoint resolutions overlap, with each other and with token refreshes.
\* The caller makes a call without awaiting the ones in flight; each call
\* resumes when its response arrives.
EndpointRaceNext ==
  \E s \in Slots :
    \/ StartRefreshToken(s)
    \/ RefreshResponse(s)
    \/ StartGetStorageUrl(s)
    \/ StartGetNotificationsUrl(s)
    \/ StorageResponse(s)
    \/ NotificationsResponse(s)

EndpointRaceSpec == Init /\ [][EndpointRaceNext]_vars

\* Uploads overlap, with each other and with token refreshes.  The caller
\* makes a call without awaiting the ones in flight.  JavaScript runs each
\* continuation to its next await and drains the microtask queue before it
\* takes the next event: a response, or the completion of generateAsync, is
\* processed only when no continuation is pending.
UploadRaceNext ==
  \E s \in Slots :
    \/ StartRefreshToken(s)
    \/ StartUploadPDF(s)
    \/ UploadRequestSend(s)
    \/ UpdateStatusSend(s)
    \/ UploadPDFFinish(s)
    \/ ~MicrotaskPending /\ RefreshResponse(s)
    \/ ~MicrotaskPending /\ GenerateAsyncDone(s)
    \/ ~MicrotaskPending /\ StorageResponse(s)
    \/ ~MicrotaskPending /\ UploadRequestResponse(s)
    \/ ~MicrotaskPending /\ TransferResponse(s)
    \/ ~MicrotaskPending /\ UpdateStatusResponse(s)

UploadRaceSpec == Init /\ [][UploadRaceNext]_vars

\* One caller keeps refreshing the Session Token (slot 1) while another
\* uploads one document after the other (slot 2), under the same scheduling.
RefreshRaceNext ==
  \/ \E s \in {1} :
       \/ StartRefreshToken(s)
       \/ ~MicrotaskPending /\ RefreshResponse(s)
  \/ \E s \in {2} :
       \/ StartUploadPDF(s)
       \/ UploadRequestSend(s)
       \/ UpdateStatusSend(s)
       \/ UploadPDFFinish(s)
       \/ ~MicrotaskPending /\ GenerateAsyncDone(s)
       \/ ~MicrotaskPending /\ StorageResponse(s)
       \/ ~MicrotaskPending /\ UploadRequestResponse(s)
       \/ ~MicrotaskPending /\ TransferResponse(s)
       \/ ~MicrotaskPending /\ UpdateStatusResponse(s)

RefreshRaceSpec == Init /\ [][RefreshRaceNext]_vars

\* ------------------------------------------------------------------ claims
\* The operations that require authorization
AuthorizedOps ==
  {"getStorageUrl", "getNotificationsUrl", "getItemWithId", "getAllItems",
   "deleteItem", "downloadZip", "uploadZip", "uploadPDF"}

\* The answer to the i-th request of a frame has arrived
Answered(c, i) == i <= Len(c.recv)

\* C1: while the Session Token is absent (no refreshToken has succeeded),
\* every call of an operation that requires authorization has failed with
\* the authentication-required error and has issued no request at all.
C1_AuthenticationRequired ==
  token = Undefined =>
    \A s \in Slots :
      calls[s].op \in AuthorizedOps =>
        /\ calls[s].pc = "done"
        /\ calls[s].settled = "rejected"
        /\ calls[s].error = ErrNeedRefresh
        /\ calls[s].sent = <<>>

\* A registered instance that never refreshed rejects deleteItem, the one
\* operation that has no token check of its own.
C1_Witness ==
  /\ token = Undefined
  /\ deviceToken # Undefined
  /\ \E s \in Slots :
       /\ calls[s].op = "deleteItem"
       /\ calls[s].settled = "rejected"
       /\ calls[s].error = ErrNeedRefresh

\* Phase 1 of the upload answered with a failure: rejected, Success=false,
\* or no BlobURLPut
RequestPhaseFailed(c, i) ==
  /\ c.sent[i].kind = "upload/request"
  /\ Answered(c, i)
  /\ \/ c.recv[i].status = "rejected"
     \/ ~c.recv[i].body[1].Success
     \/ c.recv[i].body[1].BlobURLPut = Undefined

\* Phase 2 answered with a failure: rejected, or a status other than 200
TransferPhaseFailed(c, i) ==
  /\ c.sent[i].kind = "blob-put"
  /\ Answered(c, i)
  /\ \/ c.recv[i].status = "rejected"
     \/ c.recv[i].body[1] # 200

\* C2: in an upload, a failed request phase or a failed transfer phase is
\* the last request of the call: the call has settled as rejected and no
\* transfer, finalize or any other request follows the failed one.
C2_UploadAbortsOnFailure ==
  \A s \in Slots :
    LET c == calls[s] IN
    c.op \in UploadOps =>
      \A i \in 1..Len(c.sent) :
        (RequestPhaseFailed(c, i) \/ TransferPhaseFailed(c, i)) =>
          /\ c.pc = "done"
          /\ c.settled = "rejected"
          /\ Len(c.sent) = i

\* An upload whose request phase reported success but omitted the write URL
C2_Witness ==
  \E s \in Slots :
    LET c == calls[s] IN
    /\ c.op \in UploadOps
    /\ c.pc = "done"
    /\ c.sent # <<>>
    /\ c.sent[Len(c.sent)].kind = "upload/request"
    /\ Len(c.recv) = Len(c.sent)
    /\ c.recv[Len(c.recv)].status = "ok"
    /\ c.recv[Len(c.recv)].body[1].Success
    /\ c.recv[Len(c.recv)].body[1].BlobURLPut = Undefined

\* The requests of the three upload phases a frame has issued
PhaseRequests(c) ==
  SelectSeq(c.sent, LAMBDA r : r.kind \in {"upload/request", "blob-put", "upload/update-status"})

\* Some request of the frame was answered with a rejection or with a body
\* the upload protocol treats as a failure
SomePhaseFailed(c) ==
  \E i \in 1..Len(c.recv) :
    \/ c.recv[i].status = "rejected"
    \/ RequestPhaseFailed(c, i)
    \/ TransferPhaseFailed(c, i)
    \/ c.sent[i].kind = "upload/update-status" /\ ~c.recv[i].body[1].Success

\* The error an upload call rejects with when its last answer is a failure
PhaseError(c) ==
  LET i == Len(c.recv) IN
  CASE c.recv[i].status = "rejected" -> ErrTransport
    [] c.sent[i].kind = "upload/request" -> ErrUploadRequest
    [] c.sent[i].kind = "blob-put" -> ErrUploadTransfer
    [] OTHER -> ErrUpdateStatus

\* C3: an uploadPDF call that resolved issued exactly one request-phase, one
\* transfer-phase and one finalize-phase request, in that order, the request
\* and finalize payloads keyed by the generated id and the transfer sent to
\* the write URL with a container that holds the id's entries, and it
\* resolved with the generated id; a call one of whose phases failed has
\* rejected with that phase's error and returned no id.
C3_UploadDocumentPhases ==
  \A s \in Slots :
    LET c == calls[s]
        p == PhaseRequests(c) IN
    c.op = "uploadPDF" =>
      /\ (c.pc = "done" /\ c.settled = "resolved") =>
           /\ [i \in 1..Len(p) |-> p[i].kind] = <<"upload/request", "blob-put", "upload/update-status">>
           /\ c.ID \in 1..uuid
           /\ p[1].json[1].ID = c.ID
           /\ \E e \in p[2].json : e.name = <<c.ID, ".pdf">>
           /\ \E i \in 1..Len(c.sent) :
                /\ c.sent[i].kind = "upload/request"
                /\ p[2].url = <<c.recv[i].body[1].BlobURLPut>>
           /\ p[3].json[1].ID = <<c.ID>>
           /\ c.value = <<c.ID>>
           /\ ~SomePhaseFailed(c)
      /\ SomePhaseFailed(c) =>
           /\ c.pc = "done"
           /\ c.settled = "rejected"
           /\ c.error = PhaseError(c)
           /\ c.value = <<>>

\* An uploadPDF call resolved although the service confirmed another id
C3_Witness ==
  \E s \in Slots :
    LET c == calls[s] IN
    /\ c.op = "uploadPDF"
    /\ c.settled = "resolved"
    /\ c.recv[Len(c.recv)].body[1].ID # c.ID

\* C4: the container an uploadPDF call builds holds entries of its own
\* generated id only, whatever the outcome of the uploadPDF calls before it.
C4_PackageStartsEmpty ==
  \A s \in Slots :
    LET c == calls[s] IN
    (c.op = "uploadPDF" /\ c.ID # NoDoc) => \A e \in c.zipFile : e.name[1] = c.ID

\* A frame of slot s that this step created or moved
Changed(s) == calls'[s] # calls[s]

\* This step starts a call of op in slot s
Starts(s, op) == Free(s) /\ Changed(s) /\ calls'[s].op = op

\* C5: with a Session Token present, a getStorageUrl (getNotificationsUrl)
\* call that finds no cached endpoint issues exactly one discovery request
\* and, when it resolves, has cached the value it returns; a call made once
\* the endpoint is cached resolves at once with the cached value and issues
\* no request.  Two calls in sequence so issue one discovery request and
\* return the same value.
C5_EndpointCachedOnce ==
  [][\A s \in Slots :
       /\ (Starts(s, "getStorageUrl") /\ token # Undefined) =>
            IF storageUrl # NoUrl
            THEN /\ calls'[s].settled = "resolved"
                 /\ calls'[s].value = <<storageUrl>>
                 /\ calls'[s].sent = <<>>
                 /\ storageUrl' = storageUrl
            ELSE /\ calls'[s].pc = "discover"
                 /\ Len(calls'[s].sent) = 1
                 /\ calls'[s].sent[1].kind = "document-storage"
       /\ (calls[s].op = "getStorageUrl" /\ Changed(s) /\ calls'[s].settled = "resolved"
             /\ calls[s].pc = "discover") =>
            /\ storageUrl' # NoUrl
            /\ calls'[s].value = <<storageUrl'>>
            /\ Len(calls'[s].sent) = 1
       /\ (Starts(s, "getNotificationsUrl") /\ token # Undefined) =>
            IF notificationUrl # NoUrl
            THEN /\ calls'[s].settled = "resolved"
                 /\ calls'[s].value = <<notificationUrl>>
                 /\ calls'[s].sent = <<>>
                 /\ notificationUrl' = notificationUrl
            ELSE /\ calls'[s].pc = "discover_notifications"
                 /\ Len(calls'[s].sent) = 1
                 /\ calls'[s].sent[1].kind = "notifications"
       /\ (calls[s].op = "getNotificationsUrl" /\ Changed(s) /\ calls'[s].settled = "resolved"
             /\ calls[s].pc = "discover_notifications") =>
            /\ notificationUrl' # NoUrl
            /\ calls'[s].value = <<notificationUrl'>>
            /\ Len(calls'[s].sent) = 1
    ]_vars

\* A getStorageUrl call answered from the cache
C5_Witness ==
  \E s \in Slots :
    /\ calls[s].op = "getStorageUrl"
    /\ calls[s].settled = "resolved"
    /\ calls[s].sent = <<>>
    /\ calls[s].value = <<storageUrl>>

\* C6: while an endpoint is cached no step issues a discovery request for
\* it and its value does not change; a step of refreshToken or register,
\* which may replace the tokens, leaves both caches as they are.
C6_EndpointNeverReresolved ==
  [][/\ storageUrl # NoUrl =>
          /\ storageUrl' = storageUrl
          /\ \A s \in Slots : ~(calls'[s].pc = "discover" /\ Changed(s))
     /\ notificationUrl # NoUrl =>
          /\ notificationUrl' = notificationUrl
          /\ \A s \in Slots : ~(calls'[s].pc = "discover_notifications" /\ Changed(s))
     /\ \A s \in Slots :
          (Changed(s) /\ calls'[s].op \in {"refreshToken", "register"}) => UNCHANGED endpoints
    ]_vars

\* A register call replaced both tokens while the storage endpoint and the
\* notification endpoint were cached
C6_Witness ==
  /\ storageUrl # NoUrl
  /\ notificationUrl # NoUrl
  /\ \E s \in Slots :
       /\ calls[s].op = "register"
       /\ calls[s].settled = "resolved"

\* C7: a register call with an empty or missing code is rejected with the
\* registration error without a request, and the step that makes it leaves
\* the tokens, the client and the cached endpoints unchanged.
C7_RegisterNeedsCode ==
  [][\A s \in Slots :
       (calls'[s].op = "register" /\ calls'[s].code \in {Undefined, ""}) =>
         /\ calls'[s].pc = "done"
         /\ calls'[s].settled = "rejected"
         /\ calls'[s].error = ErrNoCode
         /\ calls'[s].sent = <<>>
         /\ Changed(s) => UNCHANGED <<session, endpoints>>
    ]_vars

\* register("") rejected on an instance that holds tokens and an endpoint
C7_Witness ==
  /\ deviceToken # Undefined
  /\ token # Undefined
  /\ storageUrl # NoUrl
  /\ \E s \in Slots :
       /\ calls[s].op = "register"
       /\ calls[s].code = ""
       /\ calls[s].error = ErrNoCode

\* C8: once the registration request of a register call has succeeded, the
\* returned Device Token is stored and a refresh request carrying it has
\* been issued; the call settles only after that refresh is answered: it
\* resolves with the Device Token when the refresh succeeds and rejects
\* when it fails, and the Device Token stays stored either way.
C8_RegisterThenRefresh ==
  \A s \in Slots :
    LET c == calls[s] IN
    (c.op = "register" /\ c.recv # <<>> /\ c.recv[1].status = "ok") =>
      LET dt == c.recv[1].body[1] IN
      /\ deviceToken = dt
      /\ Len(c.sent) = 2
      /\ c.sent[2].kind = "user/new"
      /\ c.sent[2].auth = dt
      /\ c.pc = "done" <=> Len(c.recv) = 2
      /\ (Len(c.recv) = 2 /\ c.recv[2].status = "rejected") => c.settled = "rejected"
      /\ (Len(c.recv) = 2 /\ c.recv[2].status = "ok") =>
           /\ c.settled = "resolved"
           /\ c.value = <<dt>>
           /\ token = c.recv[2].body[1]

\* A register call failed in its refresh and the new Device Token is kept
C8_Witness ==
  \E s \in Slots :
    LET c == calls[s] IN
    /\ c.op = "register"
    /\ c.settled = "rejected"
    /\ Len(c.recv) = 2
    /\ c.recv[1].status = "ok"
    /\ deviceToken = c.recv[1].body[1]

\* C9: the authorized client's bearer always equals the Session Token; a
\* refreshToken call made without a Device Token is rejected with the
\* authentication-required error and issues no request, one made with a
\* Device Token sends it in the exchange, and a call that resolved has made
\* the returned value the Session Token.
C9_RefreshToken ==
  /\ gotClient = token
  /\ \A s \in Slots :
       LET c == calls[s] IN
       c.op = "refreshToken" =>
         /\ deviceToken = Undefined <=> c.sent = <<>>
         /\ c.sent = <<>> => (c.pc = "done" /\ c.settled = "rejected" /\ c.error = ErrMustRegister)
         /\ c.sent # <<>> => (c.sent[1].kind = "user/new" /\ c.sent[1].auth = deviceToken)
         /\ c.settled = "resolved" =>
              /\ c.recv[1].status = "ok"
              /\ token = c.recv[1].body[1]
              /\ c.value = <<token>>

\* A refreshToken call resolved and set the token
C9_Witness ==
  \E s \in Slots :
    /\ calls[s].op = "refreshToken"
    /\ calls[s].settled = "resolved"
    /\ calls[s].value = <<token>>
    /\ gotClient = token

\* The delete requests a frame has issued
DeleteRequests(c) == SelectSeq(c.sent, LAMBDA r : r.kind = "delete")

\* C10: a deleteItem call sends at most one delete instruction, keyed by
\* its id and version; once that request is answered with a per-item
\* result the call resolves (it does not reject) with the result's Success
\* flag, so a rejected delete (Success=false) resolves with false.
C10_DeleteItem ==
  \A s \in Slots :
    LET c == calls[s]
        d == DeleteRequests(c) IN
    c.op = "deleteItem" =>
      /\ Len(d) <= 1
      /\ \A i \in 1..Len(d) : d[i].json = <<[ID |-> c.ID, Version |-> c.version]>>
      /\ c.settled = "resolved" => Len(d) = 1
      /\ (d # <<>> /\ Len(c.recv) = Len(c.sent) /\ c.recv[Len(c.recv)].status = "ok") =>
           /\ c.settled = "resolved"
           /\ c.value = <<c.recv[Len(c.recv)].body[1].Success>>

\* The service refused the delete and deleteItem resolved with false
C10_Witness ==
  \E s \in Slots :
    LET c == calls[s] IN
    /\ c.op = "deleteItem"
    /\ c.settled = "resolved"
    /\ c.recv[Len(c.recv)].body[1].Success = FALSE
    /\ c.value = <<FALSE>>

\* The index of the list query among the requests of a frame, 0 if none
ListIndex(c) ==
  IF \E i \in 1..Len(c.sent) : c.sent[i].kind = "docs"
  THEN CHOOSE i \in 1..Len(c.sent) : c.sent[i].kind = "docs"
  ELSE 0

\* The list query of a frame was answered with a result set that yields no
\* BlobURLGet for the item: no record at all, or a first record without one
NoBlobYielded(c) ==
  LET i == ListIndex(c) IN
  /\ i > 0
  /\ Answered(c, i)
  /\ c.recv[i].status = "ok"
  /\ \/ c.recv[i].body = <<>>
     \/ c.recv[i].body[1].BlobURLGet = Undefined

\* C11: a downloadZip call for which the directory yields no BlobURLGet is
\* rejected with the blob-not-found error and has opened no stream.
C11_BlobNotFound ==
  \A s \in Slots :
    LET c == calls[s] IN
    (c.op = "downloadZip" /\ NoBlobYielded(c)) =>
      /\ c.pc = "done"
      /\ c.settled = "rejected"
      /\ c.error = ErrNoBlob
      /\ \A i \in 1..Len(c.sent) : c.sent[i].kind # "blob-get"

\* C12: a getItemWithId call queries the directory for its id and, once the
\* query is answered with a result set, resolves with the first record of
\* that set, or with an absent value when the set is empty; it does not
\* reject.
C12_GetItemWithId ==
  \A s \in Slots :
    LET c == calls[s]
        i == ListIndex(c) IN
    (c.op = "getItemWithId" /\ i > 0) =>
      /\ c.sent[i].json = <<c.ID, TRUE>>
      /\ Len(c.sent) = i
      /\ (Answered(c, i) /\ c.recv[i].status = "ok") =>
           /\ c.pc = "done"
           /\ c.settled = "resolved"
           /\ c.value = <<IF c.recv[i].body = <<>> THEN <<>> ELSE <<c.recv[i].body[1]>>>>

\* The service returned an empty result set and getItemWithId resolved with
\* an absent value
C12_Witness ==
  \E s \in Slots :
    LET c == calls[s] IN
    /\ c.op = "getItemWithId"
    /\ c.settled = "resolved"
    /\ c.recv[Len(c.recv)].body = <<>>
    /\ c.value = <<<<>>>>

C14_FailuresRaised ==
  \A s \in Slots :
    LET c == calls[s] IN
    \A i \in 1..Len(c.recv) :
      c.recv[i].status = "rejected" =>
        /\ c.pc = "done"
        /\ c.settled = "rejected"
        /\ c.error = ErrTransport
        /\ Len(c.sent) = i

\* The number of bytes in the chunks before the k-th
RECURSIVE Offset(_, _)
Offset(chunks, k) == IF k = 1 THEN 0 ELSE Offset(chunks, k - 1) + Len(chunks[k - 1])

\* buf holds the bytes of every chunk, chunk after chunk, and nothing else
IsConcatenation(buf, chunks) ==
  /\ Len(buf) = Offset(chunks, Len(chunks) + 1)
  /\ \A k \in 1..Len(chunks) :
       \A j \in 1..Len(chunks[k]) : buf[Offset(chunks, k) + j] = chunks[k][j]

\* C18: while its stream is open a downloadZip call is pending and has
\* delivered nothing; a resolved downloadZip call has seen the end of its
\* stream, and its result is the concatenation, in arrival order, of all
\* chunks received.
C18_NoPartialResult ==
  \A s \in Slots :
    LET c == calls[s] IN
    c.op = "downloadZip" =>
      /\ c.pc = "stream" => (c.settled = "pending" /\ c.value = <<>>)
      /\ c.settled = "resolved" =>
           /\ c.sent[Len(c.sent)].kind = "blob-get"
           /\ Answered(c, Len(c.sent))
           /\ c.recv[Len(c.sent)] = Ok(<<"end">>)
           /\ Len(c.value) = 1
           /\ IsConcatenation(c.value[1], c.chunks)

\* A download of two different chunks has resolved
C18_Witness ==
  \E s \in Slots :
    LET c == calls[s] IN
    /\ c.op = "downloadZip"
    /\ c.settled = "resolved"
    /\ Len(c.chunks) = 2
    /\ c.chunks[1] # c.chunks[2]

\* The finalize requests of a frame
FinalizeRequests(c) == {i \in 1..Len(c.sent) : c.sent[i].kind = "upload/update-status"}

\* What the finalize payload p holds besides the type of the item: one
\* record, with the id of the request phase, the caller's name and the
\* default flags
FinalizeRecord(c, p) ==
  /\ Len(p) = 1
  /\ p[1].ID = <<c.ID>>
  /\ \E i \in 1..Len(c.sent) :
       c.sent[i].kind = "upload/request" /\ c.sent[i].json[1].ID = c.ID
  /\ p[1].VissibleName = <<c.name>>
  /\ p[1].deleted = <<FALSE>>
  /\ p[1].pinned = <<FALSE>>
  /\ p[1].synced = <<TRUE>>
  /\ p[1].version = <<1>>

\* C19 as stated: the finalize payload is a single record with the id of
\* the request phase, the caller's name, the default flags, and a field
\* Type that holds the document type constant.
C19_FinalizePayload_Type ==
  \A s \in Slots :
    LET c == calls[s] IN
    \A i \in FinalizeRequests(c) :
      /\ FinalizeRecord(c, c.sent[i].json)
      /\ "Type" \in DOMAIN c.sent[i].json[1]
      /\ c.sent[i].json[1].Type = <<"DocumentType">>

\* C19, amended: the finalize payload is a single record with the id of the
\* request phase, the caller's name in place of the default one, the
\* default flags, and the document type constant in the field named type
\* (lower case, as in defaultPDFmetadata); it has no field named Type.
C19_FinalizePayload ==
  \A s \in Slots :
    LET c == calls[s] IN
    \A i \in FinalizeRequests(c) :
      /\ FinalizeRecord(c, c.sent[i].json)
      /\ c.sent[i].json[1].type = <<"DocumentType">>
      /\ "Type" \notin DOMAIN c.sent[i].json[1]

\* A finalize request was issued for a name other than the default one
C19_Witness ==
  \E s \in Slots :
    /\ FinalizeRequests(calls[s]) # {}
    /\ calls[s].name = "Report"

\* A cached endpoint needs a session token, a session token a device token
SessionOrdered ==
  /\ (storageUrl # NoUrl \/ notificationUrl # NoUrl) => ~Falsy(token)
  /\ ~Falsy(token) => ~Falsy(deviceToken)

\* Frame s is rejected by this step while awaiting the answer named by pcs
FailsAt(s, pcs) == calls[s].pc \in pcs /\ calls'[s].settled = "rejected"

\* C20: in every reachable state a cached endpoint implies a session token
\* and a session token implies a device token; no step clears a session
\* token; a step in which a refreshToken or a discovery call fails leaves the
\* session token and both endpoint caches as they were.
C20_SessionState ==
  /\ SessionOrdered
  /\ [][/\ SessionOrdered'
        /\ ~Falsy(token) => ~Falsy(token')
        /\ \A s \in Slots :
             FailsAt(s, {"refresh", "discover", "discover_notifications"}) =>
               UNCHANGED <<token, gotClient, storageUrl, notificationUrl>>]_vars

\* With a session token and an endpoint cached, a refreshToken call has
\* failed
C20_Witness ==
  /\ ~Falsy(token)
  /\ storageUrl # NoUrl
  /\ \E s \in Slots :
       /\ calls[s].op = "refreshToken"
       /\ calls[s].settled = "rejected"
       /\ calls[s].error = ErrTransport

\* The requests that carry the Session Token
SessionKinds ==
  {"document-storage", "notifications", "docs", "delete", "upload/request", "blob-put",
   "upload/update-status"}

\* This step issues a request of frame s
Issues(s) ==
  /\ Changed(s)
  /\ Len(calls'[s].sent) = (IF Free(s) THEN 0 ELSE Len(calls[s].sent)) + 1

\* C15: under overlapping uploads and token refreshes, every request that
\* carries a Session Token carries the one that is current when the request
\* is issued, whichever phase of whichever call issues it: a token that a
\* completed refreshToken has replaced is never sent again.
C15_CurrentTokenSent ==
  [][\A s \in Slots :
       LET r == calls'[s].sent[Len(calls'[s].sent)] IN
       (Issues(s) /\ r.kind \in SessionKinds) => (r.auth = token /\ r.auth = token')]_vars

\* An upload issued its request phase under one Session Token and a later
\* phase under another: a refreshToken completed in between
C15_Witness ==
  \E s \in Slots :
    LET c == calls[s] IN
    \E i, j \in 1..Len(c.sent) :
      /\ i < j
      /\ c.sent[i].kind = "upload/request"
      /\ c.sent[j].kind \in {"blob-put", "upload/update-status"}
      /\ c.sent[j].auth # c.sent[i].auth
      /\ c.sent[j].auth = token

\* The endpoint operations and the field each caches into
EndpointOps == {"getStorageUrl", "getNotificationsUrl"}

\* The address an endpoint call builds from the host of a discovery answer
ResolvedFrom(c, answer) ==
  <<IF c.op = "getStorageUrl" THEN "https://" ELSE "wss://", answer.body[1]>>

\* An endpoint call has issued at most one discovery request, and one that
\* resolved after a discovery returns the address of its own answer
OwnDiscovery ==
  \A s \in Slots :
    LET c == calls[s] IN
    c.op \in EndpointOps =>
      /\ Len(c.sent) <= 1
      /\ (c.settled = "resolved" /\ Len(c.sent) = 1) =>
           (Answered(c, 1) /\ c.value = <<ResolvedFrom(c, c.recv[1])>>)

\* Frame s processes the answer to its discovery request in this step
ProcessesDiscovery(s) ==
  /\ calls[s].op \in EndpointOps
  /\ calls[s].pc \in {"discover", "discover_notifications"}
  /\ calls'[s].settled = "resolved"

\* C16: with endpoint calls overlapping, each call issues at most one
\* discovery request and returns the address of its own answer; the cached
\* endpoint is always the address of the answer processed last: processing
\* an answer overwrites the cache with it, and nothing else changes a cache.
C16_LastWriterWins ==
  /\ OwnDiscovery
  /\ [][/\ OwnDiscovery'
        /\ \A s \in Slots :
             ProcessesDiscovery(s) =>
               IF calls[s].op = "getStorageUrl"
               THEN storageUrl' = calls'[s].value[1]
               ELSE notificationUrl' = calls'[s].value[1]
        /\ (storageUrl' # storageUrl \/ notificationUrl' # notificationUrl) =>
             \E s \in Slots : ProcessesDiscovery(s)]_vars

\* Two getStorageUrl calls each issued a discovery request, were answered
\* with different hosts, and each returned its own address; the cache holds
\* the address of the second slot
C16_Witness ==
  /\ \A s \in {1, 2} :
       /\ calls[s].op = "getStorageUrl"
       /\ Len(calls[s].sent) = 1
       /\ calls[s].settled = "resolved"
  /\ calls[1].value # calls[2].value
  /\ <<storageUrl>> = calls[2].value

\* C17: the container of an uploadPDF call that has been handed to the
\* upload protocol holds exactly the three entries named with the id the
\* call generated, and no entry of another call.
C17_OwnEntriesOnly ==
  \A s \in Slots :
    LET c == calls[s] IN
    (c.op = "uploadPDF" /\ c.phase # "") =>
      {e.name : e \in c.zipFile} = {<<c.ID, ".content">>, <<c.ID, ".pagedata">>, <<c.ID, ".pdf">>}

====
